---- MODULE Spec2Model ----
(***************************************************************************)
(* A model of video/out/metal/generate_shader_header.py: the script reads  *)
(* a shader source file, escapes it, wraps it in a C string literal and    *)
(* writes the generated header.                                            *)
(*                                                                         *)
(* Text is a sequence of one-character strings.  A file system is a        *)
(* function from the paths that exist to their contents.  Each invocation  *)
(* of the script is a process with its own program counter, locals, file   *)
(* handles and standard output.                                            *)
(***************************************************************************)
EXTENDS Integers, Sequences, FiniteSets, TLC

VARIABLES
    fs,             \* the file system: path -> content, for the paths that exist
    pc,             \* pc[p]: where invocation p stands
    argv,           \* argv[p]: sys.argv of invocation p
    input_file,     \* generate_header's parameters and locals
    output_file,
    shader_source,
    header_content,
    in_open,        \* in_open[p]: the handle of line 10 is open
    out_open,       \* out_open[p]: the handle of line 23 is open
    out_buf,        \* out_buf[p]: text written to the handle and not yet flushed
    stdout,         \* stdout[p]: the lines printed
    exit_code,      \* exit_code[p]: the exit status, once pc[p] = "exited"
    raised,         \* raised[p]: the uncaught exception, <<type, line>>, <<>> when none
    fs_start,       \* history: the file system when invocation p started
    last_writer     \* history: the invocation whose data reached a file last, 0 when none

vars == <<fs, pc, argv, input_file, output_file, shader_source, header_content,
          in_open, out_open, out_buf, stdout, exit_code, raised, fs_start,
          last_writer>>

----------------------------------------------------------------------------
(* Bounds of the model *)

\* the longest content of the first input file
MaxLen == 3
\* the length of the stale content the output file may hold at the start
OldLen == 80

----------------------------------------------------------------------------
(* Characters and text *)

BS == "\\"
DQ == "\""
NL == "\n"
CR == "\r"

\* the characters of file contents: the three the script escapes, the
\* carriage return text mode translates, and a plain letter
Alphabet == {BS, DQ, NL, CR, "n"}

Strings(n) == UNION {[1..k -> Alphabet] : k \in 0..n}

\* s.replace(c, new) for a one-character c: every occurrence of c, left to
\* right, becomes new; what new holds is not scanned again
RECURSIVE Replace(_, _, _)
Replace(s, c, new) ==
    IF s = <<>> THEN <<>>
    ELSE (IF Head(s) = c THEN new ELSE <<Head(s)>>) \o Replace(Tail(s), c, new)

\* f.read() of a file opened with mode 'r': universal newlines, "\r\n" and a
\* lone "\r" are read as "\n"
RECURSIVE ReadText(_)
ReadText(data) ==
    IF data = <<>> THEN <<>>
    ELSE IF Head(data) = CR
         THEN IF Len(data) >= 2 /\ data[2] = NL
              THEN <<NL>> \o ReadText(Tail(Tail(data)))
              ELSE <<NL>> \o ReadText(Tail(data))
         ELSE <<Head(data)>> \o ReadText(Tail(data))

\* a faulty variant of Escape: the backslash replacement is left out
EscapeNoBackslash(s) ==
    Replace(Replace(s, DQ, <<BS, DQ>>), NL, <<BS, "n", DQ, NL, DQ>>)

\* a faulty variant of Escape: the backslash replacement runs last
EscapeBackslashLast(s) ==
    Replace(Replace(Replace(s, DQ, <<BS, DQ>>),
                    NL, <<BS, "n", DQ, NL, DQ>>),
            BS, <<BS, BS>>)

\* a faulty variant of Escape: a newline becomes \n without a line splice
EscapeNoSplice(s) ==
    Replace(Replace(Replace(s, BS, <<BS, BS>>),
                    DQ, <<BS, DQ>>),
            NL, <<BS, "n">>)

\* lines 14-16: the three replacements, in the order of the source
Escape(s) ==
    Replace(Replace(Replace(s, BS, <<BS, BS>>),
                    DQ, <<BS, DQ>>),
            NL, <<BS, "n", DQ, NL, DQ>>)

\* os.path.basename (posixpath): what follows the last "/"
RECURSIVE Basename(_)
Basename(path) ==
    IF \E i \in 1..Len(path) : path[i] = "/"
    THEN Basename(Tail(path))
    ELSE path

AutoGenerated ==
    <<"/", "/", " ", "A", "u", "t", "o", "-", "g", "e", "n", "e", "r", "a", "t",
      "e", "d", " ", "f", "r", "o", "m", " ">>

DoNotEdit ==
    <<"/", "/", " ", "D", "o", " ", "n", "o", "t", " ", "e", "d", "i", "t", " ",
      "m", "a", "n", "u", "a", "l", "l", "y">>

\* a faulty variant of HeaderContent: the path is not stripped to its basename
HeaderFullPath(path, escaped) ==
    AutoGenerated \o path \o <<NL>>
        \o DoNotEdit \o <<NL, NL>>
        \o <<DQ>> \o escaped \o <<DQ, NL>>

\* lines 19-21: the three f-strings
HeaderContent(path, escaped) ==
    AutoGenerated \o Basename(path) \o <<NL>>
        \o DoNotEdit \o <<NL, NL>>
        \o <<DQ>> \o escaped \o <<DQ, NL>>

\* line 30: the usage line
Usage == <<"Usage: generate_shader_header.py <input.metal> <output.h>">>

\* line 26: the confirmation line
Confirmation(out, in) == <<"Generated", out, "from", in>>

----------------------------------------------------------------------------
(* The file system *)

Exists(p) == p \in DOMAIN fs

\* the file system with data as the whole content of path
Put(f, path, data) ==
    [q \in DOMAIN f \cup {path} |-> IF q = path THEN data ELSE f[q]]

\* a faulty variant of WriteAtStart: the data is appended
WriteAtEnd(content, data) == content \o data

\* write(2) of data at offset 0 of a file holding content: the bytes after
\* the written range stay
WriteAtStart(content, data) ==
    data \o SubSeq(content, Len(data) + 1, Len(content))

\* a faulty variant of OpenForWriting: an existing file is not truncated
OpenKeepingContent(f, path) ==
    IF path \in DOMAIN f THEN f ELSE Put(f, path, <<>>)

\* line 23, open(output_file, 'w'): the file is created, or truncated to
\* nothing when it exists
OpenForWriting(f, path) == Put(f, path, <<>>)

\* the paths of the model: the script, two shader files (the second in a
\* directory), a path no file has, and the generated header
Prog == <<"g">>
InA == <<"a">>
InB == <<"d", "/", "b">>
NoSuch == <<"x">>
OutH == <<"o">>

\* what the second shader file may hold
SecondContents == {<<>>, <<DQ, CR, NL>>}

\* what the output file holds when it is there before the first run
Stale == [i \in 1..OldLen |-> "#"]

Procs == {1, 2}

\* the command lines: no argument, one, two (the input there or not), three
ArgVectors ==
    {<<Prog>>, <<Prog, InA>>, <<Prog, InA, OutH, InB>>}
        \cup {<<Prog, i, OutH>> : i \in {InA, InB, NoSuch}}

----------------------------------------------------------------------------
(* The state after construction *)

InitFiles ==
    \E a \in Strings(MaxLen), b \in SecondContents, old \in BOOLEAN :
        fs = [q \in {InA, InB} \cup (IF old THEN {OutH} ELSE {}) |->
                IF q = InA THEN a ELSE IF q = InB THEN b ELSE Stale]

InitLocals ==
    /\ input_file = [p \in Procs |-> <<>>]
    /\ output_file = [p \in Procs |-> <<>>]
    /\ shader_source = [p \in Procs |-> <<>>]
    /\ header_content = [p \in Procs |-> <<>>]
    /\ in_open = [p \in Procs |-> FALSE]
    /\ out_open = [p \in Procs |-> FALSE]
    /\ out_buf = [p \in Procs |-> <<>>]
    /\ stdout = [p \in Procs |-> <<>>]
    /\ exit_code = [p \in Procs |-> 0]
    /\ raised = [p \in Procs |-> <<>>]
    /\ last_writer = 0

\* no invocation has started
Init ==
    /\ InitFiles
    /\ InitLocals
    /\ pc = [p \in Procs |-> "idle"]
    /\ argv = [p \in Procs |-> <<>>]
    /\ fs_start = [p \in Procs |-> fs]

\* a build system has started two invocations that generate the same header
InitConc ==
    /\ InitFiles
    /\ InitLocals
    /\ pc = [p \in Procs |-> "main"]
    /\ argv = [p \in Procs |-> <<Prog, IF p = 1 THEN InA ELSE InB, OutH>>]
    /\ fs_start = [p \in Procs |-> fs]

----------------------------------------------------------------------------
(* The steps of one invocation p *)

\* the interpreter starts the script with command line args, in a new process
Invoke(p, args) ==
    /\ pc[p] \in {"idle", "exited"}
    /\ pc' = [pc EXCEPT ![p] = "main"]
    /\ argv' = [argv EXCEPT ![p] = args]
    /\ input_file' = [input_file EXCEPT ![p] = <<>>]
    /\ output_file' = [output_file EXCEPT ![p] = <<>>]
    /\ shader_source' = [shader_source EXCEPT ![p] = <<>>]
    /\ header_content' = [header_content EXCEPT ![p] = <<>>]
    /\ stdout' = [stdout EXCEPT ![p] = <<>>]
    /\ exit_code' = [exit_code EXCEPT ![p] = 0]
    /\ raised' = [raised EXCEPT ![p] = <<>>]
    /\ fs_start' = [fs_start EXCEPT ![p] = fs]
    /\ UNCHANGED <<fs, in_open, out_open, out_buf, last_writer>>

\* a faulty variant of MainUsage: only too few arguments are refused
MainUsageTooFew(p) ==
    /\ pc[p] = "main"
    /\ Len(argv[p]) # 3
    /\ IF Len(argv[p]) < 3
       THEN /\ stdout' = [stdout EXCEPT ![p] = Append(@, Usage)]
            /\ exit_code' = [exit_code EXCEPT ![p] = 1]
            /\ pc' = [pc EXCEPT ![p] = "exited"]
            /\ UNCHANGED <<input_file, output_file>>
       ELSE /\ input_file' = [input_file EXCEPT ![p] = argv[p][2]]
            /\ output_file' = [output_file EXCEPT ![p] = argv[p][3]]
            /\ pc' = [pc EXCEPT ![p] = "open_in"]
            /\ UNCHANGED <<stdout, exit_code>>
    /\ UNCHANGED <<fs, argv, shader_source, header_content, in_open, out_open,
                   out_buf, raised, fs_start, last_writer>>

\* lines 29-31: a wrong argument count prints the usage and exits with 1
MainUsage(p) ==
    /\ pc[p] = "main"
    /\ Len(argv[p]) # 3
    /\ stdout' = [stdout EXCEPT ![p] = Append(@, Usage)]
    /\ exit_code' = [exit_code EXCEPT ![p] = 1]
    /\ pc' = [pc EXCEPT ![p] = "exited"]
    /\ UNCHANGED <<fs, argv, input_file, output_file, shader_source,
                   header_content, in_open, out_open, out_buf, raised, fs_start,
                   last_writer>>

\* line 33: generate_header(sys.argv[1], sys.argv[2]); argv[p][1] is sys.argv[0]
MainCall(p) ==
    /\ pc[p] = "main"
    /\ Len(argv[p]) = 3
    /\ input_file' = [input_file EXCEPT ![p] = argv[p][2]]
    /\ output_file' = [output_file EXCEPT ![p] = argv[p][3]]
    /\ pc' = [pc EXCEPT ![p] = "open_in"]
    /\ UNCHANGED <<fs, argv, shader_source, header_content, in_open, out_open,
                   out_buf, stdout, exit_code, raised, fs_start, last_writer>>

\* an exception nothing catches, raised at a line of the script: the
\* traceback goes to stderr, the exit status is 1, and every with-block on
\* the way out has closed its handle
Uncaught(p, exception, line) ==
    /\ raised' = [raised EXCEPT ![p] = <<exception, line>>]
    /\ exit_code' = [exit_code EXCEPT ![p] = 1]
    /\ in_open' = [in_open EXCEPT ![p] = FALSE]
    /\ out_open' = [out_open EXCEPT ![p] = FALSE]
    /\ out_buf' = [out_buf EXCEPT ![p] = <<>>]
    /\ pc' = [pc EXCEPT ![p] = "exited"]

\* line 10: open(input_file, 'r') succeeds
OpenInput(p) ==
    /\ pc[p] = "open_in"
    /\ Exists(input_file[p])
    /\ in_open' = [in_open EXCEPT ![p] = TRUE]
    /\ pc' = [pc EXCEPT ![p] = "read"]
    /\ UNCHANGED <<fs, argv, input_file, output_file, shader_source,
                   header_content, out_open, out_buf, stdout, exit_code, raised,
                   fs_start, last_writer>>

\* a faulty variant of OpenInputFail: the output file was opened first
OpenInputFailTruncating(p) ==
    /\ pc[p] = "open_in"
    /\ Uncaught(p, IF Exists(input_file[p]) THEN "PermissionError"
                                            ELSE "FileNotFoundError", 10)
    /\ fs' = OpenForWriting(fs, output_file[p])
    /\ UNCHANGED <<argv, input_file, output_file, shader_source,
                   header_content, stdout, fs_start, last_writer>>

\* line 10: open(input_file, 'r') raises: the file is not there, or it is
\* and may not be read
OpenInputFail(p) ==
    /\ pc[p] = "open_in"
    /\ Uncaught(p, IF Exists(input_file[p]) THEN "PermissionError"
                                            ELSE "FileNotFoundError", 10)
    /\ UNCHANGED <<fs, argv, input_file, output_file, shader_source,
                   header_content, stdout, fs_start, last_writer>>

\* line 11: shader_source = f.read()
ReadInput(p) ==
    /\ pc[p] = "read"
    /\ shader_source' = [shader_source EXCEPT ![p] = ReadText(fs[input_file[p]])]
    /\ pc' = [pc EXCEPT ![p] = "close_in"]
    /\ UNCHANGED <<fs, argv, input_file, output_file, header_content, in_open,
                   out_open, out_buf, stdout, exit_code, raised, fs_start,
                   last_writer>>

\* line 11: f.read() raises; the with-block of line 10 closes the handle
ReadFail(p) ==
    /\ pc[p] = "read"
    /\ Uncaught(p, "OSError", 11)
    /\ UNCHANGED <<fs, argv, input_file, output_file, shader_source,
                   header_content, stdout, fs_start, last_writer>>

\* a faulty variant of CloseInput: the input handle stays open
CloseInputLeak(p) ==
    /\ pc[p] = "close_in"
    /\ pc' = [pc EXCEPT ![p] = "escape"]
    /\ UNCHANGED <<fs, argv, input_file, output_file, shader_source,
                   header_content, in_open, out_open, out_buf, stdout, exit_code,
                   raised, fs_start, last_writer>>

\* lines 10-11: the with-block ends and closes the input handle
CloseInput(p) ==
    /\ pc[p] = "close_in"
    /\ in_open' = [in_open EXCEPT ![p] = FALSE]
    /\ pc' = [pc EXCEPT ![p] = "escape"]
    /\ UNCHANGED <<fs, argv, input_file, output_file, shader_source,
                   header_content, out_open, out_buf, stdout, exit_code, raised,
                   fs_start, last_writer>>

\* lines 14-16: escape special characters
EscapeSource(p) ==
    /\ pc[p] = "escape"
    /\ shader_source' = [shader_source EXCEPT ![p] = Escape(@)]
    /\ pc' = [pc EXCEPT ![p] = "format"]
    /\ UNCHANGED <<fs, argv, input_file, output_file, header_content, in_open,
                   out_open, out_buf, stdout, exit_code, raised, fs_start,
                   last_writer>>

\* lines 19-21: generate header content
FormatHeader(p) ==
    /\ pc[p] = "format"
    /\ header_content' =
           [header_content EXCEPT ![p] = HeaderContent(input_file[p], shader_source[p])]
    /\ pc' = [pc EXCEPT ![p] = "open_out"]
    /\ UNCHANGED <<fs, argv, input_file, output_file, shader_source, in_open,
                   out_open, out_buf, stdout, exit_code, raised, fs_start,
                   last_writer>>

\* line 23: open(output_file, 'w') succeeds
OpenOutput(p) ==
    /\ pc[p] = "open_out"
    /\ fs' = OpenForWriting(fs, output_file[p])
    /\ out_open' = [out_open EXCEPT ![p] = TRUE]
    /\ pc' = [pc EXCEPT ![p] = "write"]
    /\ UNCHANGED <<argv, input_file, output_file, shader_source, header_content,
                   in_open, out_buf, stdout, exit_code, raised, fs_start,
                   last_writer>>

\* line 23: open(output_file, 'w') raises (the directory is missing or may
\* not be written): no file is created or truncated
OpenOutputFail(p) ==
    /\ pc[p] = "open_out"
    /\ Uncaught(p, "OSError", 23)
    /\ UNCHANGED <<fs, argv, input_file, output_file, shader_source,
                   header_content, stdout, fs_start, last_writer>>

\* line 24: f.write(header_content).  The text stays in the handle's buffer
\* until the handle is closed, or, when it does not fit the buffer, goes to
\* the file at once; the handle's offset is 0, this being its only write
WriteOutput(p) ==
    /\ pc[p] = "write"
    /\ \/ /\ out_buf' = [out_buf EXCEPT ![p] = header_content[p]]
          /\ UNCHANGED <<fs, last_writer>>
       \/ /\ fs' = Put(fs, output_file[p],
                       WriteAtStart(fs[output_file[p]], header_content[p]))
          /\ last_writer' = p
          /\ UNCHANGED out_buf
    /\ pc' = [pc EXCEPT ![p] = "close_out"]
    /\ UNCHANGED <<argv, input_file, output_file, shader_source, header_content,
                   in_open, out_open, stdout, exit_code, raised, fs_start>>

\* line 24: f.write raises; the with-block of line 23 closes the handle
WriteFail(p) ==
    /\ pc[p] = "write"
    /\ Uncaught(p, "OSError", 24)
    /\ UNCHANGED <<fs, argv, input_file, output_file, shader_source,
                   header_content, stdout, fs_start, last_writer>>

\* lines 23-24: the with-block ends: what is buffered is flushed to the
\* file, at offset 0, and the handle is closed
CloseOutput(p) ==
    /\ pc[p] = "close_out"
    /\ IF out_buf[p] # <<>>
       THEN /\ fs' = Put(fs, output_file[p],
                         WriteAtStart(fs[output_file[p]], out_buf[p]))
            /\ last_writer' = p
       ELSE UNCHANGED <<fs, last_writer>>
    /\ out_buf' = [out_buf EXCEPT ![p] = <<>>]
    /\ out_open' = [out_open EXCEPT ![p] = FALSE]
    /\ pc' = [pc EXCEPT ![p] = "print"]
    /\ UNCHANGED <<argv, input_file, output_file, shader_source, header_content,
                   in_open, stdout, exit_code, raised, fs_start>>

\* lines 23-24: the flush of the closing handle raises; the handle is closed
\* all the same
CloseOutputFail(p) ==
    /\ pc[p] = "close_out"
    /\ out_buf[p] # <<>>
    /\ Uncaught(p, "OSError", 24)
    /\ UNCHANGED <<fs, argv, input_file, output_file, shader_source,
                   header_content, stdout, fs_start, last_writer>>

\* line 26: the confirmation line; the script ends, with status 0
PrintDone(p) ==
    /\ pc[p] = "print"
    /\ stdout' = [stdout EXCEPT ![p] = Append(@, Confirmation(output_file[p], input_file[p]))]
    /\ exit_code' = [exit_code EXCEPT ![p] = 0]
    /\ pc' = [pc EXCEPT ![p] = "exited"]
    /\ UNCHANGED <<fs, argv, input_file, output_file, shader_source,
                   header_content, in_open, out_open, out_buf, raised, fs_start,
                   last_writer>>

----------------------------------------------------------------------------
(* The specifications *)

\* one invocation at a time, run again and again
Next ==
    \/ \E args \in ArgVectors : Invoke(1, args)
    \/ MainUsage(1)
    \/ MainCall(1)
    \/ OpenInput(1)
    \/ OpenInputFail(1)
    \/ ReadInput(1)
    \/ ReadFail(1)
    \/ CloseInput(1)
    \/ EscapeSource(1)
    \/ FormatHeader(1)
    \/ OpenOutput(1)
    \/ OpenOutputFail(1)
    \/ WriteOutput(1)
    \/ WriteFail(1)
    \/ CloseOutput(1)
    \/ CloseOutputFail(1)
    \/ PrintDone(1)

Spec == Init /\ [][Next]_vars

\* two invocations, each run once and meeting no I/O error, interleaved at
\* every step
NextConc ==
    \E p \in Procs :
        \/ MainCall(p)
        \/ OpenInput(p)
        \/ ReadInput(p)
        \/ CloseInput(p)
        \/ EscapeSource(p)
        \/ FormatHeader(p)
        \/ OpenOutput(p)
        \/ WriteOutput(p)
        \/ CloseOutput(p)
        \/ PrintDone(p)

SpecConc == InitConc /\ [][NextConc]_vars

----------------------------------------------------------------------------
(* Operators the properties are stated with *)

\* invocation p has called generate_header and returned from it
Succeeded(p) == pc[p] = "exited" /\ Len(argv[p]) = 3 /\ raised[p] = <<>>

\* lines 14-16 have run in invocation p, which is still in generate_header
AfterEscape(p) == pc[p] \in {"format", "open_out", "write", "close_out", "print"}

\* the string invocation p reads; no run of the script modifies its input
SourceText(p) == ReadText(fs[input_file[p]])

Occurs(c, s) == \E i \in 1..Len(s) : s[i] = c

Count(c, s) == Cardinality({i \in 1..Len(s) : s[i] = c})

Special(s) == Occurs(BS, s) \/ Occurs(DQ, s) \/ Occurs(NL, s)

\* the text after the first k lines of t
RECURSIVE DropLines(_, _)
DropLines(t, k) ==
    IF k = 0 \/ t = <<>> THEN t
    ELSE DropLines(Tail(t), IF Head(t) = NL THEN k - 1 ELSE k)

\* the literal of a generated header: what follows the two comment lines and
\* the blank line, without the last character of the file
LiteralBody(content) ==
    LET t == DropLines(content, 3) IN SubSeq(t, 1, Len(t) - 1)

\* A C lexer for adjacent string literals separated by newlines: the decoded
\* segments of t from position i on, added to segs.  Inside a literal a
\* backslash takes the next character (\\, \" or \n), a double quote closes
\* the literal, and a raw newline is an error.
RECURSIVE Lex(_, _, _, _)
Lex(t, i, inside, segs) ==
    IF i > Len(t) THEN [ok |-> ~inside /\ segs # <<>>, segs |-> segs]
    ELSE IF ~inside
    THEN IF t[i] = DQ THEN Lex(t, i + 1, TRUE, Append(segs, <<>>))
         ELSE IF t[i] = NL THEN Lex(t, i + 1, FALSE, segs)
         ELSE [ok |-> FALSE, segs |-> segs]
    ELSE IF t[i] = DQ THEN Lex(t, i + 1, FALSE, segs)
    ELSE IF t[i] = NL THEN [ok |-> FALSE, segs |-> segs]
    ELSE IF t[i] = BS
    THEN IF i + 1 <= Len(t) /\ t[i + 1] \in {BS, DQ, "n"}
         THEN Lex(t, i + 2, TRUE,
                  [segs EXCEPT ![Len(segs)] =
                      Append(@, IF t[i + 1] = "n" THEN NL ELSE t[i + 1])])
         ELSE [ok |-> FALSE, segs |-> segs]
    ELSE Lex(t, i + 1, TRUE, [segs EXCEPT ![Len(segs)] = Append(@, t[i])])

RECURSIVE Flatten(_)
Flatten(segs) == IF segs = <<>> THEN <<>> ELSE Head(segs) \o Flatten(Tail(segs))

\* the one-pass mapping: each character of s by itself
RECURSIVE PerChar(_)
PerChar(s) ==
    IF s = <<>> THEN <<>>
    ELSE (CASE Head(s) = BS -> <<BS, BS>>
            [] Head(s) = DQ -> <<BS, DQ>>
            [] Head(s) = NL -> <<BS, "n", DQ, NL, DQ>>
            [] OTHER -> <<Head(s)>>) \o PerChar(Tail(s))

\* what each of the three characters is replaced by
Sub(c) ==
    CASE c = BS -> <<BS, BS>>
      [] c = DQ -> <<BS, DQ>>
      [] c = NL -> <<BS, "n", DQ, NL, DQ>>

\* the three replacements run in the order o[1], o[2], o[3]
EscapeInOrder(s, o) ==
    Replace(Replace(Replace(s, o[1], Sub(o[1])), o[2], Sub(o[2])), o[3], Sub(o[3]))

\* the orders in which the three replacements can run
Orders ==
    {o \in [1..3 -> {BS, DQ, NL}] : \A i, j \in 1..3 : o[i] = o[j] => i = j}

\* c runs before d in order o
Before(o, c, d) == \E i, j \in 1..3 : i < j /\ o[i] = c /\ o[j] = d

Splice == <<BS, "n", DQ, NL, DQ>>

\* the places of t where a line splice starts
SplicePoints(t) == {i \in 1..Len(t) - 4 : SubSeq(t, i, i + 4) = Splice}

----------------------------------------------------------------------------
(* The properties *)

\* C1: round trip.  When generate_header has returned, the literal of the
\* output file is well-formed and decodes (adjacent segments concatenated,
\* \\ \" and \n unescaped) to exactly the string that was read.
C1_RoundTrip ==
    Succeeded(1) =>
        LET r == Lex(LiteralBody(fs[output_file[1]]), 1, FALSE, <<>>)
        IN  r.ok /\ Flatten(r.segs) = SourceText(1)

\* a run has returned whose input holds a backslash, a quote and a newline
C1_Witness ==
    /\ Succeeded(1)
    /\ Occurs(BS, SourceText(1))
    /\ Occurs(DQ, SourceText(1))
    /\ Occurs(NL, SourceText(1))

\* C2: when generate_header has returned, the output file holds exactly the
\* line "// Auto-generated from <basename>", the line "// Do not edit
\* manually", a blank line, a quote, the escaped text, a quote and a newline.
\* The basename is the part of the input path after its last "/".
C2_OutputFormat ==
    Succeeded(1) =>
        \E k \in 0..Len(input_file[1]) :
            LET b == SubSeq(input_file[1], k + 1, Len(input_file[1]))
            IN  /\ ~Occurs("/", b)
                /\ k > 0 => input_file[1][k] = "/"
                /\ fs[output_file[1]] =
                       AutoGenerated \o b \o <<NL>> \o DoNotEdit \o <<NL>> \o <<NL>>
                           \o <<DQ>> \o Escape(SourceText(1)) \o <<DQ>> \o <<NL>>

\* a run has returned whose input path has a directory and whose input has
\* characters to escape
C2_Witness ==
    /\ Succeeded(1)
    /\ Occurs("/", input_file[1])
    /\ Special(SourceText(1))

\* C3: an invocation whose argument count is not 3 (sys.argv included) never
\* enters generate_header, opens no file and leaves the file system as it
\* found it; when it has exited it has printed the usage line, and only that,
\* and its exit status is 1.
C3_UsageError ==
    (pc[1] # "idle" /\ Len(argv[1]) # 3) =>
        /\ input_file[1] = <<>> /\ output_file[1] = <<>>
        /\ ~in_open[1] /\ ~out_open[1]
        /\ fs = fs_start[1]
        /\ raised[1] = <<>>
        /\ pc[1] \in {"main", "exited"}
        /\ pc[1] = "exited" => stdout[1] = <<Usage>> /\ exit_code[1] = 1

\* an invocation with one argument has exited, the output file being there
C3_Witness ==
    /\ pc[1] = "exited"
    /\ Len(argv[1]) = 2
    /\ OutH \in DOMAIN fs

\* C4: when the input path does not exist the invocation ends with
\* FileNotFoundError raised at line 10; and whenever opening or reading the
\* input raised, the exception is an OSError (IOError) nothing caught, the
\* file system is as it was when the invocation started, and nothing was
\* printed.
C4_InputError ==
    /\ (pc[1] = "exited" /\ Len(argv[1]) = 3 /\ input_file[1] \notin DOMAIN fs)
           => raised[1] = <<"FileNotFoundError", 10>>
    /\ (pc[1] = "exited" /\ raised[1] # <<>> /\ raised[1][2] \in {10, 11}) =>
           /\ raised[1][1] \in {"FileNotFoundError", "PermissionError", "OSError"}
           /\ exit_code[1] = 1
           /\ fs = fs_start[1]
           /\ stdout[1] = <<>>
           /\ ~in_open[1] /\ ~out_open[1]

\* a run on a path that does not exist has ended, after an earlier run had
\* generated the output file
C4_Witness ==
    /\ pc[1] = "exited"
    /\ input_file[1] = NoSuch
    /\ raised[1] # <<>>
    /\ OutH \in DOMAIN fs
    /\ fs[OutH] # Stale

\* C5: with n newlines in the string read, the literal of the output file
\* has exactly n line splices and n + 1 segments; every real newline of the
\* literal is the fourth character of a splice; the literal ends with a
\* double quote; and when the string ends with a newline the last segment is
\* empty.
C5_Splices ==
    Succeeded(1) =>
        LET body == LiteralBody(fs[output_file[1]])
            s == SourceText(1)
            n == Count(NL, s)
            r == Lex(body, 1, FALSE, <<>>)
        IN  /\ Cardinality(SplicePoints(body)) = n
            /\ r.ok /\ Len(r.segs) = n + 1
            /\ \A i \in 1..Len(body) : body[i] = NL => (i - 3) \in SplicePoints(body)
            /\ body[Len(body)] = DQ
            /\ (s # <<>> /\ s[Len(s)] = NL) => r.segs[Len(r.segs)] = <<>>

\* a run has returned whose input has two newlines or more and ends with one
C5_Witness ==
    /\ Succeeded(1)
    /\ Count(NL, SourceText(1)) >= 2
    /\ SourceText(1)[Len(SourceText(1))] = NL

\* C6, as stated: running the three substitutions on text that already is
\* their output leaves it as it is.
C6_Idempotent ==
    AfterEscape(1) => Escape(shader_source[1]) = shader_source[1]

\* C6, amended: running the three substitutions on text that already is
\* their output leaves it as it is exactly when the string read holds no
\* backslash, double quote or newline; otherwise the second run escapes
\* again, each character of the escaped text by itself.
C6_IdempotentIffPlain ==
    AfterEscape(1) =>
        /\ (Escape(shader_source[1]) = shader_source[1]) <=> ~Special(SourceText(1))
        /\ Escape(shader_source[1]) = PerChar(shader_source[1])

\* the text of a string with a backslash and a newline has been escaped
C6_Witness ==
    /\ AfterEscape(1)
    /\ Occurs(BS, SourceText(1))
    /\ Occurs(NL, SourceText(1))

\* C7: whenever generate_header has returned, the output file holds what
\* HeaderContent gives for the input path and the input content of that
\* call, whatever the file held before and whether it existed; none of the
\* earlier content is left.
C7_FullRegeneration ==
    Succeeded(1) =>
        /\ fs[output_file[1]] =
               HeaderContent(input_file[1], Escape(ReadText(fs[input_file[1]])))
        /\ ~Occurs("#", fs[output_file[1]])
        /\ \A q \in DOMAIN fs : q # output_file[1] => fs[q] = fs_start[1][q]

\* a run has returned that found a longer, different output file
C7_Witness ==
    /\ Succeeded(1)
    /\ output_file[1] \in DOMAIN fs_start[1]
    /\ Len(fs_start[1][output_file[1]]) > Len(fs[output_file[1]])
    /\ fs_start[1][output_file[1]] # Stale

\* both concurrent invocations have ended
BothExited == \A p \in Procs : pc[p] = "exited"

\* the output of the invocation that wrote last, and of the other one
LastOutput == header_content[last_writer]
OtherOutput == header_content[3 - last_writer]

\* C8, as stated: when two concurrent invocations have ended, the output
\* file holds exactly the output of the one that wrote last.
C8_LastWriterWins ==
    BothExited => fs[OutH] = LastOutput

\* C8, amended: when two concurrent invocations have ended, the output file
\* starts with the complete output of the one that wrote last; it holds
\* exactly that output, or, when the other output is longer, that output
\* followed by what the other output has beyond its length.
C8_LastWriterPrefix ==
    BothExited =>
        /\ last_writer \in Procs
        /\ SubSeq(fs[OutH], 1, Len(LastOutput)) = LastOutput
        /\ \/ fs[OutH] = LastOutput
           \/ /\ Len(OtherOutput) > Len(LastOutput)
              /\ fs[OutH] = LastOutput
                     \o SubSeq(OtherOutput, Len(LastOutput) + 1, Len(OtherOutput))

\* both have ended and the file is the last output followed by the tail of
\* the other
C8_Witness ==
    /\ BothExited
    /\ fs[OutH] # LastOutput
    /\ Len(fs[OutH]) = Len(OtherOutput)

\* C9: the text the three replacements of lines 14-16 give is the one-pass
\* mapping of the string read; and an order of the replacements that runs
\* the backslash one after the quote one gives another text for every string
\* with a quote, as does an order that runs it after the newline one for
\* every string with a newline.
C9_OnePass ==
    AfterEscape(1) =>
        LET s == SourceText(1)
        IN  /\ shader_source[1] = PerChar(s)
            /\ \A o \in Orders :
                   ((Before(o, DQ, BS) /\ Occurs(DQ, s))
                        \/ (Before(o, NL, BS) /\ Occurs(NL, s)))
                   => EscapeInOrder(s, o) # PerChar(s)

\* the text  "\  (a quote, then a backslash) has been escaped
C9_Witness ==
    /\ AfterEscape(1)
    /\ input_file[1] = InA
    /\ \E i \in 1..Len(SourceText(1)) - 1 :
           SourceText(1)[i] = DQ /\ SourceText(1)[i + 1] = BS

\* C10: an invocation never holds both handles open; when it has exited,
\* with or without an exception, it holds none, and nothing is left in a
\* buffer; and the confirmation line is printed only when the output handle
\* is closed and the file holds the header.
C10_Handles ==
    /\ ~(in_open[1] /\ out_open[1])
    /\ in_open[1] <=> pc[1] \in {"read", "close_in"}
    /\ out_open[1] <=> pc[1] \in {"write", "close_out"}
    /\ pc[1] = "exited" => ~in_open[1] /\ ~out_open[1] /\ out_buf[1] = <<>>
    /\ stdout[1] # <<>> /\ stdout[1] # <<Usage>> =>
           /\ stdout[1] = <<Confirmation(output_file[1], input_file[1])>>
           /\ pc[1] = "exited" /\ raised[1] = <<>>
           /\ ~out_open[1]
           /\ fs[output_file[1]] = header_content[1]

\* a run has ended with an exception raised while the output handle was open
C10_Witness ==
    /\ pc[1] = "exited"
    /\ raised[1] = <<"OSError", 24>>
    /\ header_content[1] # <<>>

====
